---- MODULE Spec2Model ----
(***************************************************************************)
(* Model of the time-clock kiosk (src/unnamed/part_001): the aggregate     *)
(* document kept in React state and in localStorage, the kiosk punch flow, *)
(* self-registration, the manager view and the settings view.              *)
(*                                                                         *)
(* Strings that the code trims or lower-cases are sequences of one-letter  *)
(* strings.  The clock counts seconds (the code counts milliseconds; every *)
(* comparison of times is unchanged by the unit).  A click handler and the *)
(* React effects its state update triggers form one action.                *)
(*                                                                         *)
(* Spec is the whole application in one tab.  SpecRegister is the          *)
(* registration form with whitespace-only inputs, SpecRace a fresh install *)
(* with no limit on the handlers that precede the digest callback, and     *)
(* SpecTabs two tabs on one stored document.                               *)
(***************************************************************************)
EXTENDS Integers, Sequences, FiniteSets, TLC

\* ------------------------------- bounds ---------------------------------
\* employees plus events held by the aggregate, and employees alone
MaxRecords == 3
MaxEmployees == 2
MaxTicks == 1
\* handlers that may run before the digest of the default code resolves
MaxOpsBeforeHash == 2

\* ------------------------------ constants -------------------------------
\* 7 * 24 * 60 * 60 seconds: one week of the retention cutoff
WeekSecs == 7 * 24 * 60 * 60
DefaultRetentionWeeks == 4

DefaultAdminCode == <<"2", "4", "6", "8", "1", "0">>
NoHash == <<>>
NoSelfie == "none"
Img == "img"

\* --------------------------- input alphabets ----------------------------
TypedCodes == { <<" ", "e", "1", " ">> }
RegCodes == { <<"E", "1">>, <<>> }
RegNames == { <<"J">>, <<>> }
RegPhones == { <<>>, <<"1", "2">> }
AdminCodes == { DefaultAdminCode, <<"1">>, <<>> }
RetentionChoices == { 0, DefaultRetentionWeeks }
\* an enrollment token as its "|"-separated segments
Tokens == { <<"x", "y", "d">>, <<"o">> }
PunchTypes == { "clock-in" }
TABS == { "kiosk", "manager", "settings" }

\* ----------------------------- string helpers ---------------------------
LowerChar(c) == IF c = "E" THEN "e" ELSE c

toLowerCase(s) == [i \in DOMAIN s |-> LowerChar(s[i])]

RECURSIVE trimStart(_)
trimStart(s) == IF s # <<>> /\ Head(s) = " " THEN trimStart(Tail(s)) ELSE s

RECURSIVE trimEnd(_)
trimEnd(s) ==
  IF s # <<>> /\ s[Len(s)] = " " THEN trimEnd(SubSeq(s, 1, Len(s) - 1)) ELSE s

trim(s) == trimEnd(trimStart(s))

\* a collision-free digest: equal digests exactly for equal inputs
sha256(str) == <<"sha256">> \o str

\* ------------------------------ variables -------------------------------
VARIABLES
  storage,          \* localStorage[DB_KEY]: [kind, doc]
  db,               \* App state: the in-memory aggregate
  initShared,       \* the callback is pending and db.device is the object it sets
  hashPending,      \* the sha256("246810").then callback has not run yet
  opsBeforeHash,    \* handlers run since the page load while it has not
  tab, adminAuthed, \* App state
  code,             \* ManagerView state: the admin code typed into the login form
  mode, typedEmployeeId, employee, punchType,   \* KioskView state
  step, camActive,  \* PunchFlow state
  now,              \* Date.now()
  otherTab,         \* a second tab on the same storage key: its App state db
                    \* (none while it is not open) and which tab saved last
  effectLog         \* what the last handler did besides its state updates: the
                    \* purge calls and sync of its effects, its alert, the
                    \* branch loadDB took, the modal its Cancel closed

vars == << storage, db, initShared, hashPending, opsBeforeHash, tab, adminAuthed, code, mode,
           typedEmployeeId, employee, punchType, step, camActive, now,
           otherTab, effectLog >>

\* ------------------------------- the store ------------------------------
InitDevice ==
  [ enrolled |-> TRUE, orgId |-> "o", siteId |-> "s", deviceId |-> "d",
    online |-> TRUE, selfieRetentionWeeks |-> DefaultRetentionWeeks,
    requireSelfie |-> TRUE, requireStrongBiometric |-> TRUE,
    adminCodeHash |-> NoHash ]

InitDB ==
  [ employees |-> <<>>, events |-> <<>>, device |-> InitDevice, pendingSeq |-> 1 ]

\* the object the then-callback of loadDB writes: init with the digest set
InitDBHashed ==
  [ InitDB EXCEPT !.device.adminCodeHash = sha256(DefaultAdminCode) ]

\* a document left by an earlier session of a device that is not enrolled
UnenrolledDB ==
  [ InitDBHashed EXCEPT !.device.enrolled = FALSE, !.device.online = FALSE ]

\* JSON.stringify leaves out every property whose value is undefined
WithoutKey(r, k) == [ x \in DOMAIN r \ { k } |-> r[x] ]

stringifyDevice(dev) ==
  IF dev.adminCodeHash = NoHash THEN WithoutKey(dev, "adminCodeHash") ELSE dev

stringifyEvent(e) ==
  IF e.selfieDataUrl = NoSelfie THEN WithoutKey(e, "selfieDataUrl") ELSE e

JSONstringify(d) ==
  [ employees |-> d.employees,
    events |-> [ i \in DOMAIN d.events |-> stringifyEvent(d.events[i]) ],
    device |-> stringifyDevice(d.device),
    pendingSeq |-> d.pendingSeq ]

\* JSON.parse builds the objects of the text; reading a property the text
\* does not have gives undefined
parseDevice(dev) ==
  [ enrolled |-> dev.enrolled, orgId |-> dev.orgId, siteId |-> dev.siteId,
    deviceId |-> dev.deviceId, online |-> dev.online,
    selfieRetentionWeeks |-> dev.selfieRetentionWeeks,
    requireSelfie |-> dev.requireSelfie,
    requireStrongBiometric |-> dev.requireStrongBiometric,
    adminCodeHash |-> IF "adminCodeHash" \in DOMAIN dev THEN dev.adminCodeHash
                      ELSE NoHash ]

parseEvent(e) ==
  [ id |-> e.id, orgId |-> e.orgId, siteId |-> e.siteId, deviceId |-> e.deviceId,
    employeeId |-> e.employeeId, type |-> e.type, ts |-> e.ts,
    biometric |-> e.biometric,
    selfieDataUrl |-> IF "selfieDataUrl" \in DOMAIN e THEN e.selfieDataUrl
                      ELSE NoSelfie,
    offlineSeq |-> e.offlineSeq, synced |-> e.synced ]

JSONparse(text) ==
  [ employees |-> text.employees,
    events |-> [ i \in DOMAIN text.events |-> parseEvent(text.events[i]) ],
    device |-> parseDevice(text.device),
    pendingSeq |-> text.pendingSeq ]

\* localStorage[DB_KEY]: no item, the empty string, a JSON text of an
\* aggregate, or a text JSON.parse rejects
NoDoc == [ kind |-> "none", doc |-> JSONstringify(InitDB) ]
EmptyDoc == [ kind |-> "empty", doc |-> JSONstringify(InitDB) ]
Garbage == [ kind |-> "garbage", doc |-> JSONstringify(InitDB) ]
Doc(d) == [ kind |-> "json", doc |-> JSONstringify(d) ]

\* saveDB: localStorage.setItem(DB_KEY, JSON.stringify(db))
saveDB_KeepsStoredEmployees(d) ==
  IF storage.kind = "json" /\ Len(storage.doc.employees) > Len(d.employees)
  THEN Doc([ d EXCEPT !.employees = storage.doc.employees ])
  ELSE Doc(d)

saveDB(d) == Doc(d)

\* purgeOldSelfies: the aggregate after the call and whether it saved
Stale_IgnoresImage(e, cutoff) == e.ts < cutoff

Stale_AtCutoff(e, cutoff) == e.selfieDataUrl # NoSelfie /\ e.ts <= cutoff

Stale(e, cutoff) == e.selfieDataUrl # NoSelfie /\ e.ts < cutoff

purgeOldSelfies(d, t) ==
  LET weeks == d.device.selfieRetentionWeeks
      cutoff == t - weeks * WeekSecs
      changed == \E i \in DOMAIN d.events : Stale(d.events[i], cutoff)
      events == [ i \in DOMAIN d.events |->
                    IF Stale(d.events[i], cutoff)
                    THEN [ d.events[i] EXCEPT !.selfieDataUrl = NoSelfie ]
                    ELSE d.events[i] ]
  IN [ db |-> [ d EXCEPT !.events = events ], changed |-> changed ]

\* the sync effect of App: mark unsynced events synced when online
SyncEffect_Never(d) == [ db |-> d, changed |-> FALSE ]

SyncEffect(d) ==
  LET changed == d.device.online /\ \E i \in DOMAIN d.events : ~d.events[i].synced
      events == [ i \in DOMAIN d.events |-> [ d.events[i] EXCEPT !.synced = TRUE ] ]
  IN [ db |-> IF changed THEN [ d EXCEPT !.events = events ] ELSE d,
       changed |-> changed ]

\* the effects that run after a render whose db is d: both purge effects and
\* the sync effect on mount, later each one when its dependency changed
NoEffects ==
  [ purge |-> <<>>, sync |-> FALSE, alert |-> "none", load |-> "none",
    cancel |-> "none" ]

\* a handler that only shows alert(msg)
Alert(msg) == [ NoEffects EXCEPT !.alert = msg ]

PurgeCall(d, t) ==
  LET p == purgeOldSelfies(d, t)
  IN [ before |-> d.events, after |-> p.db.events, wrote |-> p.changed ]

RunEffects(d, st, t, onMount, weeksChanged, onlineChanged) ==
  LET p1 == IF onMount THEN purgeOldSelfies(d, t) ELSE [ db |-> d, changed |-> FALSE ]
      st1 == IF p1.changed THEN saveDB(p1.db) ELSE st
      p2 == IF onMount \/ weeksChanged THEN purgeOldSelfies(p1.db, t)
            ELSE [ db |-> p1.db, changed |-> FALSE ]
      st2 == IF p2.changed THEN saveDB(p2.db) ELSE st1
      s3 == IF onMount \/ onlineChanged THEN SyncEffect(p2.db)
            ELSE [ db |-> p2.db, changed |-> FALSE ]
      st3 == IF s3.changed THEN saveDB(s3.db) ELSE st2
  IN [ db |-> s3.db, storage |-> st3,
       effectLog |->
         [ purge |-> IF onMount THEN << PurgeCall(d, t), PurgeCall(p1.db, t) >>
                     ELSE IF weeksChanged THEN << PurgeCall(p1.db, t) >> ELSE <<>>,
           sync |-> s3.changed, alert |-> "none", load |-> "none",
           cancel |-> "none" ] ]

\* App.save(next) in a tab whose state was prev, followed by the effects of
\* the render it causes
SaveAndRenderIn(prev, next) ==
  RunEffects(next, saveDB(next), now, FALSE,
             next.device.selfieRetentionWeeks # prev.device.selfieRetentionWeeks,
             next.device.online # prev.device.online)

\* App.save(next) followed by the effects of the render it causes
SaveAndRender(next) ==
  RunEffects(next, saveDB(next), now, FALSE,
             next.device.selfieRetentionWeeks # db.device.selfieRetentionWeeks,
             next.device.online # db.device.online)

\* loadDB: the fresh aggregate when there is no item (or an empty one), the
\* parsed document, or, when JSON.parse throws, loadDB() again after
\* removeItem
loadDB_DiscardsDocument(st) == InitDB

RECURSIVE loadDB(_)
loadDB(st) ==
  IF st.kind \in { "none", "empty" } THEN InitDB
  ELSE IF st.kind = "json" THEN JSONparse(st.doc)
  ELSE loadDB(NoDoc)

\* localStorage after loadDB: the catch branch removes the item
StorageAfterLoad_KeepsGarbage(st) == st

StorageAfterLoad(st) == IF st.kind = "garbage" THEN NoDoc ELSE st

\* loadDB took the branch that builds init and starts sha256("246810")
FreshLoad(st) == st.kind # "json"

LoadKind(st) ==
  IF st.kind = "json" THEN "parsed"
  ELSE IF st.kind = "garbage" THEN "discarded" ELSE "fresh"

\* a page load: loadDB, then the mount effects
Mount(st, t) ==
  LET r == RunEffects(loadDB(st), StorageAfterLoad(st), t, TRUE, FALSE, FALSE)
  IN [ r EXCEPT !.effectLog.load = LoadKind(st) ]

\* the model stops adding records to a full aggregate
Room(d) == Len(d.employees) + Len(d.events) < MaxRecords

\* ------------------------------ Kiosk view ------------------------------
\* resolveEmployee / tryResolve: Array.find over db.employees
Matches_NoTrim(x, d, empId) ==
  /\ x.orgId = d.device.orgId
  /\ x.siteId = d.device.siteId
  /\ toLowerCase(x.employeeId) = toLowerCase(empId)

Matches(x, d, empId) ==
  /\ x.orgId = d.device.orgId
  /\ x.siteId = d.device.siteId
  /\ toLowerCase(x.employeeId) = toLowerCase(trim(empId))

FindEmployee(d, empId) ==
  LET hits == { i \in DOMAIN d.employees : Matches(d.employees[i], d, empId) }
  IN IF hits = {} THEN <<>>
     ELSE << d.employees[CHOOSE i \in hits : \A j \in hits : i <= j] >>

\* the guards of completePunch before it builds the event
PunchAllowed_AnyStatus(d, emp) ==
  /\ d.device.enrolled
  /\ emp # <<>>

PunchAllowed(d, emp) ==
  /\ d.device.enrolled
  /\ emp # <<>>
  /\ emp[1].status = "active"

\* the EventRecord completePunch builds
NewEvent_SeqAfterIncrement(d, emp, type, selfie, t) ==
  [ id |-> Len(d.events) + 1,
    orgId |-> d.device.orgId, siteId |-> d.device.siteId,
    deviceId |-> d.device.deviceId,
    employeeId |-> emp.id,
    type |-> type,
    ts |-> t,
    biometric |-> IF d.device.requireStrongBiometric THEN "simulated" ELSE "weak",
    selfieDataUrl |-> IF d.device.requireSelfie THEN selfie ELSE NoSelfie,
    offlineSeq |-> d.pendingSeq + 1,
    synced |-> d.device.online ]

NewEvent_AlwaysSynced(d, emp, type, selfie, t) ==
  [ id |-> Len(d.events) + 1,
    orgId |-> d.device.orgId, siteId |-> d.device.siteId,
    deviceId |-> d.device.deviceId,
    employeeId |-> emp.id,
    type |-> type,
    ts |-> t,
    biometric |-> IF d.device.requireStrongBiometric THEN "simulated" ELSE "weak",
    selfieDataUrl |-> IF d.device.requireSelfie THEN selfie ELSE NoSelfie,
    offlineSeq |-> d.pendingSeq,
    synced |-> TRUE ]

NewEvent(d, emp, type, selfie, t) ==
  [ id |-> Len(d.events) + 1,
    orgId |-> d.device.orgId, siteId |-> d.device.siteId,
    deviceId |-> d.device.deviceId,
    employeeId |-> emp.id,
    type |-> type,
    ts |-> t,
    biometric |-> IF d.device.requireStrongBiometric THEN "simulated" ELSE "weak",
    selfieDataUrl |-> IF d.device.requireSelfie THEN selfie ELSE NoSelfie,
    offlineSeq |-> d.pendingSeq,
    synced |-> d.device.online ]

PunchNext_NoIncrement(d, emp, type, selfie, t) ==
  [ d EXCEPT !.events = Append(@, NewEvent(d, emp, type, selfie, t)) ]

\* next = { ...db, events: [...db.events, ev], pendingSeq: seq + 1 }
PunchNext(d, emp, type, selfie, t) ==
  [ d EXCEPT !.events = Append(@, NewEvent(d, emp, type, selfie, t)),
             !.pendingSeq = d.pendingSeq + 1 ]

KioskClosed ==
  /\ mode' = "home"
  /\ employee' = <<>>
  /\ step' = "closed"
  /\ camActive' = FALSE

\* completePunch(selfie), called from the punch flow
completePunch(selfie, stepAfter) ==
  IF PunchAllowed(db, employee)
  THEN LET r == SaveAndRender(PunchNext(db, employee[1], punchType, selfie, now))
       IN /\ db' = r.db
          /\ storage' = r.storage
          /\ effectLog' = [ r.effectLog EXCEPT !.alert = "recorded" ]
          /\ typedEmployeeId' = <<>>
          /\ KioskClosed
  ELSE /\ UNCHANGED << db, storage, typedEmployeeId, employee, mode, camActive >>
       /\ effectLog' = IF db.device.enrolled /\ employee # <<>>
                       THEN Alert("Employee not approved yet.") ELSE NoEffects
       /\ step' = stepAfter

TypeEmployeeId(s) ==
  /\ tab = "kiosk" /\ mode = "home"
  /\ typedEmployeeId' = s
  /\ effectLog' = NoEffects
  /\ UNCHANGED << storage, db, initShared, hashPending, tab, adminAuthed, code, mode,
                  employee, punchType, step, camActive, now >>

\* startPunch returns early, with an alert, on a device that is not enrolled
StartPunchBlocked_Never(d) == FALSE

StartPunchBlocked(d) == ~d.device.enrolled

\* the Clock-in / Clock-out buttons: setPunchType(type); startPunch()
StartPunch(type) ==
  /\ tab = "kiosk" /\ mode = "home"
  /\ punchType' = type
  /\ IF StartPunchBlocked(db)
     THEN /\ effectLog' = Alert("Device not enrolled. Contact admin.")
          /\ UNCHANGED << mode, employee, step >>
     ELSE /\ effectLog' = NoEffects
          /\ employee' = FindEmployee(db, typedEmployeeId)
          /\ mode' = "punch"
          /\ step' = IF employee' # <<>> THEN "presence" ELSE "identify"
  /\ UNCHANGED << storage, db, initShared, hashPending, tab, adminAuthed, code,
                  typedEmployeeId, camActive, now >>

\* PunchFlow.tryResolve (the Continue button of the identify step)
TryResolve ==
  /\ mode = "punch" /\ step = "identify"
  /\ LET e == FindEmployee(db, typedEmployeeId)
     IN IF e = <<>> \/ e[1].status # "active"
        THEN /\ effectLog' = IF e = <<>> THEN Alert("Employee ID not found.")
                             ELSE Alert("Employee is not approved yet.")
             /\ UNCHANGED << employee, step >>
        ELSE /\ effectLog' = NoEffects
             /\ employee' = e /\ step' = "presence"
  /\ UNCHANGED << storage, db, initShared, hashPending, tab, adminAuthed, code, mode,
                  typedEmployeeId, punchType, camActive, now >>

\* PunchFlow.confirmPresence, after the 1.2 s hold
ConfirmPresence ==
  /\ mode = "punch" /\ step = "presence"
  /\ Room(db)
  /\ IF db.device.requireSelfie
     THEN /\ step' = "selfie"
          /\ effectLog' = NoEffects
          /\ UNCHANGED << db, storage, typedEmployeeId, employee, mode, camActive >>
     ELSE completePunch(NoSelfie, "none")
  /\ UNCHANGED << initShared, hashPending, tab, adminAuthed, code, punchType, now >>

\* cam.start of the selfie step: getUserMedia resolves or rejects
EnableCamera(granted) ==
  /\ mode = "punch" /\ step = "selfie" /\ ~camActive
  /\ camActive' = granted
  /\ effectLog' = NoEffects
  /\ UNCHANGED << storage, db, initShared, hashPending, tab, adminAuthed, code, mode,
                  typedEmployeeId, employee, punchType, step, now >>

\* PunchFlow.takeSelfieAndComplete; captured is what cam.capture() returns
TakeSelfieAndComplete(captured) ==
  /\ mode = "punch" /\ step = "selfie"
  /\ Room(db)
  /\ completePunch(IF camActive THEN captured ELSE NoSelfie, "selfie")
  /\ UNCHANGED << initShared, hashPending, tab, adminAuthed, code, punchType, now >>

\* onCancel of the punch modal
CancelPunch_KeepsEmployee ==
  /\ mode = "punch" /\ step \in { "identify", "presence", "selfie" }
  /\ mode' = "home"
  /\ step' = "closed"
  /\ camActive' = FALSE
  /\ effectLog' = [ NoEffects EXCEPT !.cancel = "punch" ]
  /\ UNCHANGED << storage, db, initShared, hashPending, tab, adminAuthed, code,
                  typedEmployeeId, employee, punchType, now >>

CancelPunch ==
  /\ mode = "punch" /\ step \in { "identify", "presence", "selfie" }
  /\ KioskClosed
  /\ effectLog' = [ NoEffects EXCEPT !.cancel = "punch" ]
  /\ UNCHANGED << storage, db, initShared, hashPending, tab, adminAuthed, code,
                  typedEmployeeId, punchType, now >>

\* ----------------------------- registration -----------------------------
Digits == { "0", "1", "2", "3", "4", "5", "6", "7", "8", "9" }

\* validPhone: p === "" || /^\+?[0-9]{7,15}$/.test(p)
validPhone(p) ==
  \/ p = <<>>
  \/ LET ds == IF p # <<>> /\ Head(p) = "+" THEN Tail(p) ELSE p
     IN /\ Len(ds) >= 7 /\ Len(ds) <= 15
        /\ \A i \in DOMAIN ds : ds[i] \in Digits

RegisterAccepted_NoPhoneCheck(employeeId, firstName, lastName, phone) ==
  employeeId # <<>> /\ firstName # <<>> /\ lastName # <<>>

RegisterAccepted(employeeId, firstName, lastName, phone) ==
  /\ employeeId # <<>> /\ firstName # <<>> /\ lastName # <<>>
  /\ validPhone(phone)

NewEmployee_Active(d, employeeId, firstName, lastName, phone) ==
  [ id |-> Len(d.employees) + 1,
    orgId |-> d.device.orgId, siteId |-> d.device.siteId,
    employeeId |-> trim(employeeId),
    firstName |-> trim(firstName),
    lastName |-> trim(lastName),
    phone |-> trim(phone),
    status |-> "active" ]

\* the Employee RegisterCard.submit builds
NewEmployee(d, employeeId, firstName, lastName, phone) ==
  [ id |-> Len(d.employees) + 1,
    orgId |-> d.device.orgId, siteId |-> d.device.siteId,
    employeeId |-> trim(employeeId),
    firstName |-> trim(firstName),
    lastName |-> trim(lastName),
    phone |-> trim(phone),
    status |-> "pending" ]

OpenRegister ==
  /\ tab = "kiosk" /\ mode = "home"
  /\ mode' = "register"
  /\ effectLog' = NoEffects
  /\ UNCHANGED << storage, db, initShared, hashPending, tab, adminAuthed, code,
                  typedEmployeeId, employee, punchType, step, camActive, now >>

CancelRegister ==
  /\ mode = "register"
  /\ mode' = "home"
  /\ effectLog' = [ NoEffects EXCEPT !.cancel = "register" ]
  /\ UNCHANGED << storage, db, initShared, hashPending, tab, adminAuthed, code,
                  typedEmployeeId, employee, punchType, step, camActive, now >>

\* RegisterCard.submit and the onSubmit of KioskView
SubmitRegister(employeeId, firstName, lastName, phone) ==
  /\ mode = "register"
  /\ Room(db) /\ Len(db.employees) < MaxEmployees
  /\ IF RegisterAccepted(employeeId, firstName, lastName, phone)
     THEN LET next == [ db EXCEPT !.employees =
                          Append(@, NewEmployee(db, employeeId, firstName,
                                                lastName, phone)) ]
              r == SaveAndRender(next)
          IN /\ db' = r.db
             /\ storage' = r.storage
             /\ effectLog' = [ r.effectLog EXCEPT !.alert = "Registered." ]
             /\ mode' = "home"
     ELSE /\ UNCHANGED << db, storage, mode >>
          /\ effectLog' = IF employeeId = <<>> \/ firstName = <<>> \/ lastName = <<>>
                          THEN Alert("Employee ID, First and Last name are required")
                          ELSE Alert("Phone should be digits with optional + and 7-15 total")
  /\ UNCHANGED << initShared, hashPending, tab, adminAuthed, code, typedEmployeeId,
                  employee, punchType, step, camActive, now >>

\* ----------------------------- Manager view -----------------------------
\* the header tabs; a modal of the kiosk view covers them while it is open
SetTab(t) ==
  /\ mode = "home"
  /\ tab' = t
  /\ typedEmployeeId' = IF t = tab THEN typedEmployeeId ELSE <<>>
  /\ punchType' = IF t = tab THEN punchType ELSE "clock-in"
  /\ code' = IF t = tab THEN code ELSE <<>>
  /\ effectLog' = NoEffects
  /\ UNCHANGED << storage, db, initShared, hashPending, adminAuthed, mode,
                  employee, step, camActive, now >>

\* ManagerView.login
LoginAccepted_AnyCode(d, entered) == d.device.adminCodeHash # NoHash

LoginAccepted(d, entered) ==
  /\ d.device.adminCodeHash # NoHash
  /\ sha256(entered) = d.device.adminCodeHash

\* typing into the Enter Admin Code input
TypeAdminCode(c) ==
  /\ tab = "manager" /\ ~adminAuthed
  /\ code' = c
  /\ effectLog' = NoEffects
  /\ UNCHANGED << storage, db, initShared, hashPending, tab, adminAuthed, mode,
                  typedEmployeeId, employee, punchType, step, camActive, now >>

\* the Enter button
Login ==
  /\ tab = "manager" /\ ~adminAuthed
  /\ adminAuthed' = LoginAccepted(db, code)
  /\ code' = IF adminAuthed' THEN <<>> ELSE code
  /\ effectLog' = IF db.device.adminCodeHash = NoHash
                  THEN Alert("Admin code not set. Ask admin.")
                  ELSE IF adminAuthed' THEN NoEffects ELSE Alert("Invalid admin code")
  /\ UNCHANGED << storage, db, initShared, hashPending, tab, mode,
                  typedEmployeeId, employee, punchType, step, camActive, now >>

SignOut ==
  /\ tab = "manager" /\ adminAuthed
  /\ adminAuthed' = FALSE
  /\ effectLog' = NoEffects
  /\ UNCHANGED << storage, db, initShared, hashPending, tab, code, mode,
                  typedEmployeeId, employee, punchType, step, camActive, now >>

\* the rows of the Approvals list, each with an Approve and a Disable button
ApprovalRows(d) == { i \in DOMAIN d.employees : d.employees[i].status # "active" }

SetStatus(d, id, status) ==
  [ d EXCEPT !.employees =
      [ i \in DOMAIN d.employees |->
          IF d.employees[i].id = id
          THEN [ d.employees[i] EXCEPT !.status = status ]
          ELSE d.employees[i] ] ]

ManagerSave(next) ==
  LET r == SaveAndRender(next)
  IN /\ db' = r.db
     /\ storage' = r.storage
     /\ effectLog' = r.effectLog
     /\ UNCHANGED << initShared, hashPending, tab, adminAuthed, code, mode,
                     typedEmployeeId, employee, punchType, step, camActive, now >>

\* ManagerView.approve, from the Approve button of a row
Approve(i) ==
  /\ tab = "manager" /\ adminAuthed
  /\ i \in ApprovalRows(db)
  /\ ManagerSave(SetStatus(db, db.employees[i].id, "active"))

\* ManagerView.disable, from the Disable button of a row
Disable(i) ==
  /\ tab = "manager" /\ adminAuthed
  /\ i \in ApprovalRows(db)
  /\ ManagerSave(SetStatus(db, db.employees[i].id, "disabled"))

\* ----------------------------- Settings view ----------------------------
SettingsSave(next, msg) ==
  LET r == SaveAndRender(next)
  IN /\ db' = r.db
     /\ storage' = r.storage
     /\ effectLog' = [ r.effectLog EXCEPT !.alert = msg ]
     /\ initShared' = FALSE
     /\ UNCHANGED << hashPending, tab, adminAuthed, code, mode, typedEmployeeId,
                     employee, punchType, step, camActive, now >>

SettingsNoop(msg) ==
  /\ effectLog' = Alert(msg)
  /\ UNCHANGED << storage, db, initShared, hashPending, tab, adminAuthed, code, mode,
                  typedEmployeeId, employee, punchType, step, camActive, now >>

\* SettingsView.enroll; the form is rendered while the device is not enrolled
Enroll(token, online, requireSelfie, ret) ==
  /\ tab = "settings" /\ ~db.device.enrolled
  /\ IF Len(token) < 2
     THEN SettingsNoop("Invalid token format. Expected ORG|SITE")
     ELSE SettingsSave(
            [ db EXCEPT !.device.enrolled = TRUE,
                        !.device.orgId = token[1],
                        !.device.siteId = token[2],
                        !.device.online = online,
                        !.device.requireSelfie = requireSelfie,
                        !.device.selfieRetentionWeeks = ret ],
            "Device enrolled.")

\* SettingsView.setCode
SetCode(adminCode) ==
  /\ tab = "settings"
  /\ IF adminCode = <<>>
     THEN SettingsNoop("Enter a numeric admin code")
     ELSE SettingsSave([ db EXCEPT !.device.adminCodeHash = sha256(adminCode) ],
                       "Admin code updated.")

\* SettingsView.savePrefs
SavePrefs(online, requireSelfie, ret) ==
  /\ tab = "settings"
  /\ SettingsSave([ db EXCEPT !.device.online = online,
                              !.device.requireSelfie = requireSelfie,
                              !.device.selfieRetentionWeeks = ret ],
                  "Settings saved.")

\* the Sync now button
SyncNow(online) ==
  /\ tab = "settings"
  /\ SettingsSave([ db EXCEPT !.device.online = online ], "none")

\* --------------------------- page load and reset ------------------------
\* a page load: useState(() => loadDB()) and the effects of the first render
PageLoad(st) ==
  LET r == Mount(st, now)
  IN /\ db' = r.db
     /\ storage' = r.storage
     /\ effectLog' = r.effectLog
     /\ initShared' = FreshLoad(st)
     /\ hashPending' = FreshLoad(st)
     /\ opsBeforeHash' = 0
     /\ tab' = "kiosk"
     /\ adminAuthed' = FALSE
     /\ code' = <<>>
     /\ typedEmployeeId' = <<>>
     /\ punchType' = "clock-in"
     /\ KioskClosed
     /\ UNCHANGED now

Reload == PageLoad(storage) /\ UNCHANGED otherTab

\* SettingsView.factoryReset, confirmed
FactoryReset ==
  /\ tab = "settings"
  /\ PageLoad(NoDoc)
  /\ UNCHANGED otherTab

\* the then-callback of sha256("246810") in loadDB
HashResolved ==
  /\ hashPending
  /\ hashPending' = FALSE
  /\ initShared' = FALSE
  /\ opsBeforeHash' = 0
  /\ storage' = saveDB(InitDBHashed)
  /\ db' = IF initShared
           THEN [ db EXCEPT !.device.adminCodeHash = sha256(DefaultAdminCode) ]
           ELSE db
  /\ effectLog' = NoEffects
  /\ UNCHANGED << tab, adminAuthed, code, mode, typedEmployeeId, employee,
                  punchType, step, camActive, now, otherTab >>

\* a handler other than the callback runs; the model lets MaxOpsBeforeHash of
\* them run before the callback
Handler(A) ==
  /\ hashPending => opsBeforeHash < MaxOpsBeforeHash
  /\ A
  /\ opsBeforeHash' = IF hashPending THEN opsBeforeHash + 1 ELSE 0
  /\ UNCHANGED otherTab

\* time passes, a week at a time
Tick ==
  /\ now < MaxTicks * WeekSecs
  /\ now' = now + WeekSecs
  /\ effectLog' = NoEffects
  /\ UNCHANGED << storage, db, initShared, hashPending, tab, adminAuthed, code, mode,
                  typedEmployeeId, employee, punchType, step, camActive >>

\* ------------------------------ a second tab ----------------------------
NoOtherTab == [ db |-> <<>>, lastSave |-> "none" ]

\* a handler of this tab while another tab may be open; a handler that
\* changed the stored document has saved
ThisTab(A) ==
  /\ A
  /\ otherTab' = [ otherTab EXCEPT !.lastSave =
                     IF storage' # storage THEN "this" ELSE @ ]

ThisTabHandler(A) == ThisTab(A /\ UNCHANGED opsBeforeHash)

ThisTabFrame ==
  UNCHANGED << db, initShared, hashPending, opsBeforeHash, tab, adminAuthed,
               code, mode, typedEmployeeId, employee, punchType, step,
               camActive, now, effectLog >>

\* the other tab is opened, or reloaded, on a stored document: its loadDB
\* and mount effects
OtherTabLoad ==
  /\ storage.kind = "json"
  /\ LET r == Mount(storage, now)
     IN /\ storage' = r.storage
        /\ otherTab' = [ db |-> << r.db >>,
                         lastSave |-> IF r.storage # storage THEN "other"
                                      ELSE otherTab.lastSave ]
  /\ ThisTabFrame

\* save(next) in the other tab
OtherTabSave(next) ==
  LET r == SaveAndRenderIn(otherTab.db[1], next)
  IN /\ storage' = r.storage
     /\ otherTab' = [ db |-> << r.db >>, lastSave |-> "other" ]
     /\ ThisTabFrame

\* an accepted registration in the other tab
OtherTabRegister(employeeId, firstName, lastName, phone) ==
  /\ otherTab.db # <<>>
  /\ Room(otherTab.db[1]) /\ Len(otherTab.db[1].employees) < MaxEmployees
  /\ RegisterAccepted(employeeId, firstName, lastName, phone)
  /\ OtherTabSave([ otherTab.db[1] EXCEPT !.employees =
                      Append(@, NewEmployee(otherTab.db[1], employeeId, firstName,
                                            lastName, phone)) ])

\* savePrefs in the other tab
OtherTabSavePrefs(online, requireSelfie, ret) ==
  /\ otherTab.db # <<>>
  /\ OtherTabSave([ otherTab.db[1] EXCEPT !.device.online = online,
                                          !.device.requireSelfie = requireSelfie,
                                          !.device.selfieRetentionWeeks = ret ])

\* ------------------------------ specification ---------------------------
InitialStorage == { NoDoc, EmptyDoc, Garbage, Doc(UnenrolledDB) }

Init ==
  /\ now = 0
  /\ \E st \in InitialStorage :
       LET r == Mount(st, 0)
       IN /\ db = r.db
          /\ storage = r.storage
          /\ effectLog = r.effectLog
          /\ initShared = FreshLoad(st)
          /\ hashPending = FreshLoad(st)
  /\ opsBeforeHash = 0
  /\ otherTab = NoOtherTab
  /\ tab = "kiosk"
  /\ adminAuthed = FALSE
  /\ code = <<>>
  /\ mode = "home"
  /\ typedEmployeeId = <<>>
  /\ employee = <<>>
  /\ punchType = "clock-in"
  /\ step = "closed"
  /\ camActive = FALSE

Next ==
  \/ Handler(\E s \in TypedCodes : TypeEmployeeId(s))
  \/ Handler(\E type \in PunchTypes : StartPunch(type))
  \/ Handler(TryResolve)
  \/ Handler(ConfirmPresence)
  \/ Handler(\E granted \in BOOLEAN : EnableCamera(granted))
  \/ Handler(\E captured \in { Img, NoSelfie } : TakeSelfieAndComplete(captured))
  \/ Handler(CancelPunch)
  \/ Handler(OpenRegister)
  \/ Handler(CancelRegister)
  \/ Handler(\E c \in RegCodes, f \in RegNames, l \in RegNames, p \in RegPhones :
               SubmitRegister(c, f, l, p))
  \/ Handler(\E t \in TABS : SetTab(t))
  \/ Handler(\E c \in AdminCodes : TypeAdminCode(c))
  \/ Handler(Login)
  \/ Handler(SignOut)
  \/ Handler(\E i \in DOMAIN db.employees : Approve(i))
  \/ Handler(\E i \in DOMAIN db.employees : Disable(i))
  \/ Handler(\E token \in Tokens, o \in BOOLEAN, rs \in BOOLEAN, ret \in RetentionChoices :
               Enroll(token, o, rs, ret))
  \/ Handler(\E c \in AdminCodes : SetCode(c))
  \/ Handler(\E o \in BOOLEAN, rs \in BOOLEAN, ret \in RetentionChoices :
               SavePrefs(o, rs, ret))
  \/ Handler(\E o \in BOOLEAN : SyncNow(o))
  \/ Handler(Tick)
  \/ Reload
  \/ FactoryReset
  \/ HashResolved

Spec == Init /\ [][Next]_vars

\* the registration form alone, with values made only of whitespace among
\* its inputs
WideRegCodes == RegCodes \cup { <<" ">> }
WideRegNames == RegNames \cup { <<" ">> }

NextRegister ==
  \/ Handler(OpenRegister)
  \/ Handler(CancelRegister)
  \/ Handler(\E c \in WideRegCodes, f \in WideRegNames, l \in WideRegNames,
                p \in RegPhones : SubmitRegister(c, f, l, p))
  \/ Reload
  \/ HashResolved

SpecRegister == Init /\ [][NextRegister]_vars

\* a fresh install in which any number of handlers may run before the
\* digest of the default code resolves: one employee registers, an admin
\* code is set, the manager approves, the employee punches
Unbounded(A) == A /\ UNCHANGED << opsBeforeHash, otherTab >>

InitRace == Init /\ storage = NoDoc

NextRace ==
  \/ Unbounded(\E s \in TypedCodes : TypeEmployeeId(s))
  \/ Unbounded(\E type \in PunchTypes : StartPunch(type))
  \/ Unbounded(ConfirmPresence)
  \/ Unbounded(TakeSelfieAndComplete(Img))
  \/ Unbounded(CancelPunch)
  \/ Unbounded(OpenRegister)
  \/ Unbounded(SubmitRegister(<<"E", "1">>, <<"J">>, <<"J">>, <<>>))
  \/ Unbounded(\E t \in TABS : SetTab(t))
  \/ Unbounded(TypeAdminCode(<<"1">>))
  \/ Unbounded(Login)
  \/ Unbounded(\E i \in DOMAIN db.employees : Approve(i))
  \/ Unbounded(SetCode(<<"1">>))
  \/ Reload
  \/ HashResolved

SpecRace == InitRace /\ [][NextRace]_vars

\* two tabs on a stored document: registration and settings in both
InitTabs == Init /\ storage.kind = "json"

NextTabs ==
  \/ ThisTabHandler(OpenRegister)
  \/ ThisTabHandler(CancelRegister)
  \/ ThisTabHandler(\E c \in RegCodes, f \in RegNames, l \in RegNames, p \in RegPhones :
                      SubmitRegister(c, f, l, p))
  \/ ThisTabHandler(\E t \in TABS : SetTab(t))
  \/ ThisTabHandler(\E o \in BOOLEAN, rs \in BOOLEAN, ret \in RetentionChoices :
                      SavePrefs(o, rs, ret))
  \/ ThisTab(PageLoad(storage))
  \/ OtherTabLoad
  \/ \E c \in RegCodes, f \in RegNames, l \in RegNames, p \in RegPhones :
       OtherTabRegister(c, f, l, p)
  \/ \E o \in BOOLEAN, rs \in BOOLEAN, ret \in RetentionChoices :
       OtherTabSavePrefs(o, rs, ret)

SpecTabs == InitTabs /\ [][NextTabs]_vars

\* ================================ claims ================================
\* a step in which the punch flow calls completePunch
CompletePunchStep ==
  \/ ConfirmPresence /\ ~db.device.requireSelfie
  \/ \E captured \in { Img, NoSelfie } : TakeSelfieAndComplete(captured)

\* a step of the kiosk that tries to record a clock-in or clock-out
PunchAttemptStep ==
  \/ \E type \in PunchTypes : StartPunch(type)
  \/ TryResolve
  \/ ConfirmPresence
  \/ \E captured \in { Img, NoSelfie } : TakeSelfieAndComplete(captured)

\* the employee an attempt is for: the resolved one, else the one the typed
\* code resolves to
PunchTarget ==
  IF employee # <<>> THEN employee ELSE FindEmployee(db, typedEmployeeId)

\* C1: completePunch for a resolved active employee on an enrolled device
\* appends exactly one event at the end of events, with offlineSeq equal to
\* the pendingSeq before the call, and leaves pendingSeq one higher.
C1_RecordAppendsOne ==
  [][ (CompletePunchStep /\ db.device.enrolled /\ employee # <<>>
        /\ employee[1].status = "active")
      => /\ Len(db'.events) = Len(db.events) + 1
         /\ SubSeq(db'.events, 1, Len(db.events)) = db.events
         /\ db'.events[Len(db'.events)].offlineSeq = db.pendingSeq
         /\ db'.pendingSeq = db.pendingSeq + 1 ]_vars

C1_Witness ==
  /\ mode = "home"
  /\ db.events # <<>>
  /\ db.events[Len(db.events)].offlineSeq + 1 = db.pendingSeq
  /\ \E i \in DOMAIN db.employees :
       /\ db.employees[i].id = db.events[Len(db.events)].employeeId
       /\ db.employees[i].status = "active"

\* C2: an attempt to record a clock-in or clock-out for an employee whose
\* status is pending or disabled leaves events and pendingSeq unchanged.
C2_NonActiveRecordsNothing ==
  [][ (PunchAttemptStep /\ PunchTarget # <<>>
        /\ PunchTarget[1].status \in { "pending", "disabled" })
      => /\ db'.events = db.events
         /\ db'.pendingSeq = db.pendingSeq ]_vars

\* the hold was confirmed for a resolved employee who is not active, and
\* completePunch returned without recording
C2_Witness ==
  /\ mode = "punch" /\ step = "none"
  /\ employee # <<>>
  /\ employee[1].status \in { "pending", "disabled" }

\* C3: while device.enrolled is false no step appends an event, startPunch
\* does not open the punch flow, and a punch attempt changes neither events
\* nor pendingSeq.
C3_UnenrolledRecordsNothing ==
  [][ ~db.device.enrolled
      => /\ Len(db'.events) <= Len(db.events)
         /\ mode' # "punch"
         /\ PunchAttemptStep
              => (db'.events = db.events /\ db'.pendingSeq = db.pendingSeq) ]_vars

\* an active employee's code is typed at the kiosk of a device that is not
\* enrolled: Clock-in leaves the kiosk where it is
C3_Witness ==
  /\ ~db.device.enrolled
  /\ tab = "kiosk" /\ mode = "home"
  /\ typedEmployeeId # <<>>
  /\ \E i \in DOMAIN db.employees :
       /\ toLowerCase(db.employees[i].employeeId) = toLowerCase(trim(typedEmployeeId))
       /\ db.employees[i].status = "active"

\* C4: the offlineSeq values of events are strictly increasing in insertion
\* order and pendingSeq is greater than each of them, in memory and in the
\* persisted document.
SeqOrdered(d) ==
  /\ \A i, j \in DOMAIN d.events :
       i < j => d.events[i].offlineSeq < d.events[j].offlineSeq
  /\ \A i \in DOMAIN d.events : d.events[i].offlineSeq < d.pendingSeq

C4_SeqStrictlyIncreasing ==
  /\ SeqOrdered(db)
  /\ storage.kind = "json" => SeqOrdered(storage.doc)

C4_Witness ==
  /\ Len(db.events) >= 2
  /\ storage = Doc(db)

\* a step taken inside the manager view
ManagerViewStep == tab = "manager" /\ tab' = "manager"

\* C5: no manager-view action moves an employee whose status is disabled to
\* status active.
C5_NoReactivation ==
  [][ ManagerViewStep
      => \A i \in DOMAIN db.employees :
           (i \in DOMAIN db'.employees /\ db.employees[i].status = "disabled")
             => db'.employees[i].status # "active" ]_vars

\* C6: whenever an employee is active and the manager is signed in, the
\* manager view offers a Disable button for that employee.
C6_DisableOffered ==
  \A i \in DOMAIN db.employees :
    (tab = "manager" /\ adminAuthed /\ db.employees[i].status = "active")
      => i \in ApprovalRows(db)

\* C7: an employee enters the store with status pending, becomes active only
\* by the manager's approve while adminAuthed is true, and no step sets an
\* existing employee's status back to pending.
C7_StatusLifecycle ==
  [][ /\ Len(db'.employees) > Len(db.employees)
        => /\ Len(db'.employees) = Len(db.employees) + 1
           /\ db'.employees[Len(db'.employees)].status = "pending"
      /\ \A i \in DOMAIN db.employees \cap DOMAIN db'.employees :
           /\ (db'.employees[i].status = "active" /\ db.employees[i].status # "active")
                => (adminAuthed /\ tab = "manager" /\ Approve(i))
           /\ db'.employees[i].status = "pending"
                => db.employees[i].status = "pending" ]_vars

C7_Witness ==
  /\ tab = "manager" /\ adminAuthed
  /\ \E i \in DOMAIN db.employees : db.employees[i].status = "active"
  /\ \E i \in DOMAIN db.employees : db.employees[i].status = "pending"

\* C8: while the device's online flag is true every event has synced = TRUE,
\* in memory and in the persisted document; events recorded offline are
\* synced by the step that saves the online flag as true.
AllSynced(d) == \A i \in DOMAIN d.events : d.events[i].synced

C8_OnlineMeansSynced ==
  db.device.online
    => /\ AllSynced(db)
       /\ storage.kind = "json" => AllSynced(storage.doc)

\* the sync effect of the last handler marked events synced and saved them
C8_Witness ==
  /\ effectLog.sync
  /\ db.device.online
  /\ db.events # <<>>
  /\ storage = Doc(db)

\* C9: a call of purgeOldSelfies clears the image of exactly the events that
\* have one and are older than now - selfieRetentionWeeks * 7 days, changes
\* nothing else, and saves only if it cleared an image.
Expired(e) ==
  /\ e.selfieDataUrl # NoSelfie
  /\ now - e.ts > db.device.selfieRetentionWeeks * WeekSecs

PurgeCallCorrect(c) ==
  /\ DOMAIN c.after = DOMAIN c.before
  /\ \A i \in DOMAIN c.before :
       /\ Expired(c.before[i]) => c.after[i].selfieDataUrl = NoSelfie
       /\ ~Expired(c.before[i]) => c.after[i].selfieDataUrl = c.before[i].selfieDataUrl
       /\ [ c.after[i] EXCEPT !.selfieDataUrl = c.before[i].selfieDataUrl ] = c.before[i]
  /\ c.wrote
       => \E i \in DOMAIN c.before :
            c.before[i].selfieDataUrl # NoSelfie /\ c.after[i].selfieDataUrl = NoSelfie

C9_PurgeClearsExpired ==
  \A k \in DOMAIN effectLog.purge : PurgeCallCorrect(effectLog.purge[k])

\* a call that cleared one image and kept another
C9_Witness ==
  \E k \in DOMAIN effectLog.purge :
    LET c == effectLog.purge[k]
    IN /\ c.wrote
       /\ \E i \in DOMAIN c.before :
            c.before[i].selfieDataUrl # NoSelfie /\ c.after[i].selfieDataUrl = NoSelfie
       /\ \E i \in DOMAIN c.before : c.after[i].selfieDataUrl # NoSelfie

\* C10: with the clock fixed, a second purgeOldSelfies yields the aggregate
\* of the first and does not save: for the two calls every page load makes,
\* and for two calls on the aggregate of any state.
C10_PurgeIdempotent ==
  /\ Len(effectLog.purge) = 2
       => /\ effectLog.purge[2].after = effectLog.purge[1].after
          /\ ~effectLog.purge[2].wrote
  /\ LET once == purgeOldSelfies(db, now)
         twice == purgeOldSelfies(once.db, now)
     IN twice.db = once.db /\ ~twice.changed

\* a page load whose first call cleared an image
C10_Witness ==
  /\ Len(effectLog.purge) = 2
  /\ effectLog.purge[1].wrote
  /\ effectLog.purge[1].after # effectLog.purge[1].before

\* the purge calls of the last handler, made with a retention of 0 weeks
ZeroRetentionCalls ==
  IF db.device.selfieRetentionWeeks = 0
  THEN { effectLog.purge[k] : k \in DOMAIN effectLog.purge } ELSE {}

\* C11 as stated: with selfieRetentionWeeks = 0, purge clears the image of an
\* event that has one and whose timestamp equals the current clock value.
C11_ZeroRetentionClearsAtClock ==
  \A c \in ZeroRetentionCalls :
    \A i \in DOMAIN c.before :
      (c.before[i].selfieDataUrl # NoSelfie /\ c.before[i].ts = now)
        => c.after[i].selfieDataUrl = NoSelfie

\* C11: with selfieRetentionWeeks = 0, purge clears the image of every event
\* whose timestamp is earlier than the current clock value, and an event
\* whose timestamp equals the clock value keeps its image.
C11_ZeroRetentionClearsOlder ==
  \A c \in ZeroRetentionCalls :
    \A i \in DOMAIN c.before :
      /\ c.before[i].ts < now => c.after[i].selfieDataUrl = NoSelfie
      /\ c.before[i].ts = now => c.after[i].selfieDataUrl = c.before[i].selfieDataUrl

\* a purge with retention 0 met an image dated now and an older one
C11_Witness ==
  \E c \in ZeroRetentionCalls :
    /\ \E i \in DOMAIN c.before :
         c.before[i].ts = now /\ c.after[i].selfieDataUrl # NoSelfie
    /\ \E i \in DOMAIN c.before :
         /\ c.before[i].ts < now /\ c.before[i].selfieDataUrl # NoSelfie
         /\ c.after[i].selfieDataUrl = NoSelfie

\* no event of d has an image older than the retention cutoff at clock t
NoImageOlderThanCutoff(d, t) ==
  \A i \in DOMAIN d.events :
    d.events[i].selfieDataUrl # NoSelfie
      => d.events[i].ts >= t - d.device.selfieRetentionWeeks * WeekSecs

\* C12: loading what saveDB wrote for the aggregate returns the aggregate
\* (employees, events in order, device settings, pendingSeq); when the
\* aggregate has no image older than the retention cutoff this also holds
\* for a page load, which runs the purge and sync effects after loadDB.
C12_RoundTrip ==
  /\ loadDB(saveDB(db)) = db
  /\ NoImageOlderThanCutoff(db, now) => Mount(saveDB(db), now).db = db

\* a page load parsed a document with employees and events, one of them
\* without an image, and the aggregate in memory is the one that was saved
C12_Witness ==
  /\ effectLog.load = "parsed"
  /\ db.employees # <<>>
  /\ \E i \in DOMAIN db.events : db.events[i].selfieDataUrl = NoSelfie
  /\ storage = saveDB(db)
  /\ storage.doc # db

\* the fresh aggregate, field by field
IsFreshAggregate(d) ==
  /\ d.employees = <<>> /\ d.events = <<>> /\ d.pendingSeq = 1
  /\ d.device.enrolled
  /\ d.device.selfieRetentionWeeks = 4
  /\ d.device.requireSelfie /\ d.device.requireStrongBiometric

\* C13: when storage holds no document or one that fails to parse, loadDB
\* returns the fresh aggregate (no employees, no events, pendingSeq 1,
\* enrolled, retention 4 weeks, selfie and strong biometric required), and
\* the unparsable document is removed from storage.
C13_FreshOnMissingOrUnparsable ==
  /\ \A st \in { NoDoc, EmptyDoc, Garbage } : IsFreshAggregate(loadDB(st))
  /\ StorageAfterLoad(Garbage).kind = "none"
  /\ effectLog.load \in { "fresh", "discarded" } => IsFreshAggregate(db)
  /\ effectLog.load = "discarded" => storage.kind = "none"

\* a page load found a document that does not parse
C13_Witness ==
  /\ effectLog.load = "discarded"
  /\ hashPending
  /\ storage.kind = "none"
  /\ IsFreshAggregate(db)

\* spellings of one code that differ in case and surrounding whitespace
CodeSpellings ==
  { <<"E", "1">>, <<" ", "e", "1", " ">>, <<"E", "1", " ">>, <<"e", "1">> }

\* x is in the device's org and site and has the typed code, trimmed and
\* compared without case
IsHit(x, d, typed) ==
  /\ x.orgId = d.device.orgId /\ x.siteId = d.device.siteId
  /\ toLowerCase(x.employeeId) = toLowerCase(trim(typed))

\* e is the first hit in insertion order, or not-found when there is none
ResolvesTo(d, typed, e) ==
  IF \E i \in DOMAIN d.employees : IsHit(d.employees[i], d, typed)
  THEN /\ e # <<>>
       /\ \E i \in DOMAIN d.employees :
            /\ d.employees[i] = e[1]
            /\ IsHit(d.employees[i], d, typed)
            /\ \A j \in 1 .. (i - 1) : ~IsHit(d.employees[j], d, typed)
  ELSE e = <<>>

\* C14: resolving a typed code returns the first employee in insertion
\* order with the device's orgId and siteId whose code equals the typed code
\* trimmed and without case, and not-found when there is none; spellings
\* that differ only in case or surrounding whitespace resolve alike; the
\* employee the open punch flow holds is the one its typed code resolves to.
C14_ResolveFirstMatch ==
  /\ \A typed \in CodeSpellings \cup { typedEmployeeId, <<>> } :
       ResolvesTo(db, typed, FindEmployee(db, typed))
  /\ \A v, w \in CodeSpellings : FindEmployee(db, v) = FindEmployee(db, w)
  /\ (mode = "punch" /\ employee # <<>>)
       => ResolvesTo(db, typedEmployeeId, employee)

\* " e1 " was typed and Clock-in resolved it to the first of two employees
\* registered with the code "E1"
C14_Witness ==
  /\ mode = "punch" /\ step = "presence"
  /\ typedEmployeeId = <<" ", "e", "1", " ">>
  /\ Len(db.employees) = 2
  /\ db.employees[1].employeeId = <<"E", "1">>
  /\ db.employees[2].employeeId = <<"E", "1">>
  /\ employee = << db.employees[1] >>

\* the code matches an employee registered under another org and site
C14_WitnessOtherSite ==
  /\ mode = "punch" /\ step = "identify"
  /\ employee = <<>>
  /\ \E i \in DOMAIN db.employees :
       /\ toLowerCase(db.employees[i].employeeId) = toLowerCase(trim(typedEmployeeId))
       /\ db.employees[i].orgId # db.device.orgId

\* C15: no two stored employees with the same orgId and siteId have
\* employee codes that are equal when case is ignored.
C15_CodesUnique ==
  \A i, j \in DOMAIN db.employees :
    (i # j /\ db.employees[i].orgId = db.employees[j].orgId
           /\ db.employees[i].siteId = db.employees[j].siteId)
      => toLowerCase(db.employees[i].employeeId)
           # toLowerCase(db.employees[j].employeeId)

\* a phone that is given and is not an optional "+" followed by 7 to 15 digits
MalformedPhone(p) ==
  /\ p # <<>>
  /\ LET ds == IF Head(p) = "+" THEN Tail(p) ELSE p
     IN \/ Len(ds) < 7 \/ Len(ds) > 15
        \/ \E i \in DOMAIN ds : ds[i] \notin Digits

\* C16: a registration submit with a missing employee code, first name or
\* last name, or with a malformed phone, changes neither the aggregate in
\* memory nor the persisted document.
C16_RejectedSubmitMutatesNothing ==
  [][ \A c \in RegCodes, f \in RegNames, l \in RegNames, p \in RegPhones :
        (SubmitRegister(c, f, l, p)
           /\ (c = <<>> \/ f = <<>> \/ l = <<>> \/ MalformedPhone(p)))
          => (db' = db /\ storage' = storage) ]_vars

\* the register modal has just refused a malformed phone, with an employee
\* already in the store
C16_Witness ==
  /\ mode = "register"
  /\ effectLog.alert = "Phone should be digits with optional + and 7-15 total"
  /\ db.employees # <<>>
  /\ storage = saveDB(db)

\* C17: every newly recorded event has synced equal to the device's online
\* flag at the moment of recording, and has an image only if the device's
\* selfie-required flag is set at that moment; with the flag off the event
\* built has no image whatever image completePunch is given.
C17_SyncedAndImageFollowFlags ==
  [][ /\ (CompletePunchStep /\ Len(db'.events) = Len(db.events) + 1)
          => LET ev == db'.events[Len(db'.events)]
             IN /\ ev.synced = db.device.online
                /\ ev.selfieDataUrl # NoSelfie => db.device.requireSelfie
                /\ ~db.device.requireSelfie => ev.selfieDataUrl = NoSelfie
      /\ \A i \in DOMAIN db.employees, selfie \in { Img, NoSelfie } :
           LET off == [ db EXCEPT !.device.requireSelfie = FALSE ]
           IN NewEvent(off, db.employees[i], "clock-in", selfie, now).selfieDataUrl
                = NoSelfie ]_vars

\* a punch was just recorded on a device that is offline and does not
\* require a selfie
C17_Witness ==
  /\ effectLog.alert = "recorded"
  /\ ~db.device.online /\ ~db.device.requireSelfie
  /\ db.events # <<>>
  /\ ~db.events[Len(db.events)].synced
  /\ db.events[Len(db.events)].selfieDataUrl = NoSelfie

\* a punch was just recorded with an image on a device that is online
C17_WitnessOnline ==
  /\ effectLog.alert = "recorded"
  /\ db.device.online /\ db.device.requireSelfie
  /\ db.events # <<>>
  /\ db.events[Len(db.events)].synced
  /\ db.events[Len(db.events)].selfieDataUrl = Img

\* a step that changes the status of a stored employee
StatusChangeStep ==
  \E i \in DOMAIN db.employees \cap DOMAIN db'.employees :
    /\ db'.employees[i].id = db.employees[i].id
    /\ db'.employees[i].status # db.employees[i].status

\* C18: adminAuthed turns true only in a login whose code has a digest equal
\* to the adminCodeHash of the device settings; a login while no digest is
\* set is rejected; an employee's status is changed (approve, disable) only
\* in the manager view while adminAuthed is true.
C18_AuthOnlyByMatchingLogin ==
  [][ /\ (adminAuthed' /\ ~adminAuthed)
          => /\ Login
             /\ db.device.adminCodeHash # NoHash
             /\ sha256(code) = db.device.adminCodeHash
      /\ (Login /\ db.device.adminCodeHash = NoHash)
          => (~adminAuthed' /\ effectLog'.alert = "Admin code not set. Ask admin.")
      /\ StatusChangeStep => (tab = "manager" /\ adminAuthed) ]_vars

\* the manager signed in with a code set in Settings and disabled an employee
C18_Witness ==
  /\ tab = "manager" /\ adminAuthed
  /\ db.device.adminCodeHash = sha256(<<"1">>)
  /\ \E i \in DOMAIN db.employees : db.employees[i].status = "disabled"

\* a login was refused because the digest of the default code is not set yet
C18_WitnessNoDigest ==
  /\ tab = "manager" /\ ~adminAuthed
  /\ effectLog.alert = "Admin code not set. Ask admin."
  /\ db.device.adminCodeHash = NoHash

\* C19: after a confirmed factory reset and the reload it triggers,
\* employees and events are empty and device.enrolled is false.
C19_FactoryResetUnenrolls ==
  [][ FactoryReset
      => /\ db'.employees = <<>>
         /\ db'.events = <<>>
         /\ ~db'.device.enrolled ]_vars

\* C20: whenever the write of the default code's digest is not pending, the
\* document in storage is the aggregate in memory.
C20_StorageEqualsMemory ==
  ~hashPending => storage = saveDB(db)

\* C22: Cancel in the register modal or at any step of the punch modal
\* leaves the aggregate and the persisted document unchanged and returns
\* the kiosk to home mode with no resolved employee.
C22_CancelChangesNothing ==
  [][ (CancelPunch \/ CancelRegister)
      => /\ db' = db
         /\ storage' = storage
         /\ mode' = "home"
         /\ employee' = <<>> ]_vars

\* the punch modal was just abandoned for a typed code that resolves to an
\* active employee, with nothing recorded
C22_Witness ==
  /\ effectLog.cancel = "punch"
  /\ mode = "home" /\ employee = <<>>
  /\ FindEmployee(db, typedEmployeeId) # <<>>
  /\ FindEmployee(db, typedEmployeeId)[1].status = "active"
  /\ db.events = <<>>
  /\ storage = saveDB(db)

\* the register modal was just abandoned
C22_WitnessRegister ==
  /\ effectLog.cancel = "register"
  /\ mode = "home" /\ employee = <<>>
  /\ storage = saveDB(db)

\* the steps for which PunchFlow renders controls; each of them has Cancel
StepsWithControls == { "identify", "presence", "selfie" }

\* C23: whenever the punch modal is open, PunchFlow is at a step for which
\* it renders a control (Continue, the hold button, Capture & Complete or
\* Cancel), so the kiosk can return to home mode without a page reload.
C23_PunchModalHasControl ==
  mode = "punch" => (step \in StepsWithControls /\ ENABLED CancelPunch)

\* C26: when the digest computation started by a fresh load completes, a
\* digest is present in the device settings in memory and in the persisted
\* document, whatever handlers ran before it.
C26_DigestArrives ==
  [][ HashResolved
      => /\ db'.device.adminCodeHash # NoHash
         /\ storage'.kind = "json"
         /\ loadDB(storage').device.adminCodeHash # NoHash ]_vars

\* C27: an event recorded while the device's selfie-required flag is set
\* carries an image.
C27_SelfieRequiredMeansImage ==
  [][ (CompletePunchStep /\ db.device.requireSelfie
         /\ Len(db'.events) = Len(db.events) + 1)
      => db'.events[Len(db'.events)].selfieDataUrl # NoSelfie ]_vars

\* C25: every stored employee has a non-empty employee code, first name
\* and last name.
C25_StoredFieldsNonEmpty ==
  \A i \in DOMAIN db.employees :
    /\ db.employees[i].employeeId # <<>>
    /\ db.employees[i].firstName # <<>>
    /\ db.employees[i].lastName # <<>>

\* event e2 is event e1 later on: the same but for synced turned true and
\* the image cleared
SameEventLater(e1, e2) ==
  /\ e2.id = e1.id
  /\ e2.orgId = e1.orgId /\ e2.siteId = e1.siteId /\ e2.deviceId = e1.deviceId
  /\ e2.employeeId = e1.employeeId
  /\ e2.type = e1.type /\ e2.ts = e1.ts /\ e2.offlineSeq = e1.offlineSeq
  /\ e2.biometric = e1.biometric
  /\ e1.synced => e2.synced
  /\ e2.selfieDataUrl \in { e1.selfieDataUrl, NoSelfie }

\* C24: in every step other than a factory reset, each event of the
\* aggregate stays at its place with its id, org/site/device ids, employee
\* reference, type, timestamp and offlineSeq; synced only turns true and
\* the image is only cleared.
C24_EventsAppendOnly ==
  [][ ~FactoryReset
      => /\ Len(db'.events) >= Len(db.events)
         /\ \A i \in DOMAIN db.events \cap DOMAIN db'.events :
              SameEventLater(db.events[i], db'.events[i]) ]_vars

\* C21: with two tabs on one storage key, the stored document is the
\* aggregate of the tab that saved last, whole and unmerged; a step of one
\* tab leaves the other tab's aggregate as it was.
C21_LastWriteWins ==
  [][ /\ otherTab'.lastSave = "this" => storage' = Doc(db')
      /\ otherTab'.lastSave = "other" => storage' = Doc(otherTab'.db[1])
      /\ otherTab'.db # otherTab.db => db' = db
      /\ db' # db => otherTab'.db = otherTab.db ]_vars

\* both tabs registered an employee; the other tab saved last, and the
\* stored document lacks the employee this tab registered
C21_Witness ==
  /\ otherTab.lastSave = "other"
  /\ otherTab.db # <<>>
  /\ storage = Doc(otherTab.db[1])
  /\ db.employees # <<>>
  /\ Len(otherTab.db[1].employees) = 1
  /\ db.device # otherTab.db[1].device

====
